---- MODULE Spec2Model ----
(***************************************************************************)
(* Model of the AWS Batch provisioning pipeline of pyAFQ                   *)
(* (examples/hcp_aws_batch/tools/pyafq_hcp/docker): submit_batch_job.main  *)
(* drives build_and_push, create_role_attach_policy,                       *)
(* create_job_definition, create_job_queue and the submit_job fan-out.     *)
(* Strings are modelled as sequences of tokens so that concatenation,      *)
(* formatting and suffixes are computed rather than assumed.               *)
(***************************************************************************)
EXTENDS Integers, Sequences, FiniteSets, TLC

(***************************************************************************)
(* Bounds of the model and constants of the program                        *)
(***************************************************************************)
\* longest --env-vars token list the model enumerates
MaxEnvLen == 3

\* last instant of the wall clock the model reaches, in ticks
MaxClock == 3

\* ticks of the wall clock per second: the clock is finer than the second
TicksPerSecond == 2

\* create_job_queue.py:33   if num_waits > 60
MaxWaits == 60

\* submit_batch_job.py:154  range_max = 10
range_max == 10

EnvTokens == {"A", "1"}

NameBases == {"pyAFQ-aws"}

TimeStamps == {"20180101-120000"}

\* statuses a job queue can report (spec.md, data model of JobQueue)
QueueStatuses == {"CREATING", "VALID", "INVALID", "DELETING", "DELETED"}

\* the managed policies the provider lists
AWSPolicies == {"AmazonS3FullAccess", "AmazonEC2FullAccess"}

PolicyLists ==
  { <<"AmazonS3FullAccess">>,
    <<"AmazonS3FullAccess", "AmazonEC2FullAccess">>,
    <<"AmazonS3FullAccess", "NoSuchPolicy">> }

\* args.tags is None (modelled as the empty list) or a non-empty list
TagLists == { <<>>, <<"v1", "v2">> }

ComputeEnvLists == { <<"first-run-compute-environment">> }

\* args.retries of a run that leaves --retries at its default
DefaultRetries == {3}

SeqsUpTo(S, n) == UNION { [1..k -> S] : k \in 0..n }

\* args.env_vars is None (modelled as the empty list) or a non-empty list
EnvVarLists == SeqsUpTo(EnvTokens, MaxEnvLen)

ProviderOps ==
  { "describe_repositories", "create_repository", "create_role", "get_role",
    "list_policies", "attach_role_policy", "register_job_definition",
    "create_job_queue", "describe_job_queues", "submit_job" }

(***************************************************************************)
(* Pure functions of the program                                           *)
(***************************************************************************)
Digits == <<"0", "1", "2", "3", "4", "5", "6", "7", "8", "9">>

IsDigit(c) == \E d \in 1..10 : Digits[d] = c

\* str(i) for a non-negative integer: decimal digits, no padding
RECURSIVE Str(_)
Str(i) == IF i < 10 THEN << Digits[i + 1] >>
          ELSE Str(i \div 10) \o << Digits[(i % 10) + 1] >>

RECURSIVE Zeros(_)
Zeros(n) == IF n <= 0 THEN << >> ELSE <<"0">> \o Zeros(n - 1)

\* '{i:0{log:d}d}'.format(i=index, log=width): zero-pad on the left to at
\* least width characters
FormatIndex(i, width) == Zeros(width - Len(Str(i))) \o Str(i)

\* floor(log10(n)) for n >= 1
RECURSIVE Log10Floor(_)
Log10Floor(n) == IF n < 10 THEN 0 ELSE 1 + Log10Floor(n \div 10)

PadWidthMut(n) == Log10Floor(n)

\* int(math.log10(range_max) + 1)
PadWidth(n) == Log10Floor(n) + 1

NextJobNameMut(name, idx) == name

\* job_name + '-{i:0{log:d}d}'.format(...)
NextJobName(name, idx) == name \o <<"-">> \o FormatIndex(idx, PadWidth(range_max))

CommandsMut(idx) == <<"--index", FormatIndex(idx, PadWidth(range_max))>>

\* commands = ['--index', str(index)]
Commands(idx) == <<"--index", Str(idx)>>

\* str.lower() on the tokens of a name
LowerToken(t) == IF t = "pyAFQ-aws" THEN "pyafq-aws" ELSE t

Lower(name) == [k \in 1..Len(name) |-> LowerToken(name[k])]

PairUpMut(tokens) ==
  [k \in 1..(Len(tokens) \div 2) |->
      [name |-> tokens[2 * k - 1], value |-> tokens[2 * k - 1]]]

\* zip(args.env_vars[::2], args.env_vars[1::2]) turned into name/value dicts
PairUp(tokens) ==
  [k \in 1..(Len(tokens) \div 2) |->
      [name |-> tokens[2 * k - 1], value |-> tokens[2 * k]]]

EvenLengthMut(tokens) == TRUE

\* len(args.env_vars) % 2 == 0
EvenLength(tokens) == Len(tokens) % 2 = 0

WaitingMut(status) == status = "CREATING"

\* waiting = (response.get('jobQueues')[0]['status'] != 'VALID')
Waiting(status) == status # "VALID"

WaitedTooLongMut(n) == n < 0

\* if num_waits > 60
WaitedTooLong(n) == n > MaxWaits

ComputeEnvironmentOrderMut(ces) ==
  [k \in 1..Len(ces) |-> [order |-> k, computeEnvironment |-> ces[k]]]

\* compute_environment_order of create_job_queue
ComputeEnvironmentOrder(ces) ==
  [k \in 1..Len(ces) |-> [order |-> k - 1, computeEnvironment |-> ces[k]]]

\* provider-assigned identifiers
RepositoryUri(name) == <<"ecr://">> \o name
RoleArn(name) == <<"arn:iam:role/">> \o name
JobDefinitionArn(name) == <<"arn:batch:job-definition/">> \o name
JobQueueArn(name) == <<"arn:batch:job-queue/">> \o name

SubmitRequestMut(job_name, job_queue, job_def, commands, env_vars) ==
  [ jobName |-> job_name, jobQueue |-> job_def, jobDefinition |-> job_queue,
    containerOverrides |-> [environment |-> env_vars, command |-> commands] ]

\* the request submit_job sends to batch.submit_job
SubmitRequest(job_name, job_queue, job_def, commands, env_vars) ==
  [ jobName |-> job_name, jobQueue |-> job_queue, jobDefinition |-> job_def,
    containerOverrides |-> [environment |-> env_vars, command |-> commands] ]

(***************************************************************************)
(* Names derived by main from the name base and the time stamp             *)
(***************************************************************************)
RepoName(nbs, ts) == Lower(<<"awsbatch/", nbs, "-repo-", ts>>)
JobRoleName(nbs, ts) == <<nbs, "-batch-job-role-", ts>>
JobDefName(nbs, ts) == <<nbs, "-batch-job-def-", ts>>
JobQueueNameMut(nbs, ts) == <<nbs, "-batch-job-queue-", "20180101-120001">>

JobQueueName(nbs, ts) == <<nbs, "-batch-job-queue-", ts>>

JobNameBase(nbs, ts) == <<nbs, "-batch-job-", ts>>

(***************************************************************************)
(* State                                                                   *)
(***************************************************************************)
VARIABLES
  argv,               \* the options given on the command line
  args,               \* the namespace parse_args returns
  time_stamp,         \* main: time_stamp
  pc,                 \* position of the run in main and its callees
  exit_code,          \* -1 while running, then the process exit status
  exit_msg,           \* "" | "timeout" | "assert" | "error"
  repositories,       \* provider: names of the ECR repositories
  roles,              \* provider: names of the IAM roles
  attached_policies,  \* provider: <<role name, policy name>> attachments
  job_definitions,    \* provider: registered job definitions
  job_queues,         \* provider: created job queues
  jobs,               \* provider: submitted jobs, in submission order
  pushed,             \* registry: <<repository uri, tag>> pushed
  builds,             \* number of docker builds performed
  requirements_txt,   \* buildpath + '/requirements.txt' is a file
  tag_i,              \* build_and_push: position in tags
  repo_uri,           \* build_and_push: repo_uri, then main: container_uri
  role_arn,           \* create_role_attach_policy: role_arn, then main: job_role_arn
  policy_i,           \* create_role_attach_policy: position in policy_names
  job_def_name,       \* main: job_def_name
  job_queue_name,     \* main: job_queue_name
  waiting,            \* create_job_queue: waiting
  num_waits,          \* create_job_queue: num_waits
  response,           \* create_job_queue: status in the last describe response
  env_vars,           \* main: env_vars
  job_name,           \* main: job_name
  index,              \* main: index of the fan-out loop
  calls,              \* number of calls made to each provider operation
  valid_seen,         \* queue names for which a status check returned VALID
  repo_returns,       \* <<repo_name, repo_uri>> returned by build_and_push calls
  role_returns,       \* <<role_name, role_arn>> returned by create_role_attach_policy calls
  copied,             \* build_and_push copied reqpath into the build context
  docker_log,         \* docker client calls made, in order: <<operation, tag>>
  attach_log,         \* policies attached, in order: <<role name, policy name>>
  clock,              \* wall clock, in ticks of 1/TicksPerSecond second
  peer_pc,            \* position of a second, concurrent run of the pipeline
  peer_time_stamp,    \* main of the second run: time_stamp
  peer_repo_uri       \* build_and_push of the second run: repo_uri

provider == <<repositories, roles, attached_policies, job_definitions,
              job_queues, jobs, pushed, builds, requirements_txt>>

build_locals == <<tag_i, repo_uri>>
role_locals == <<role_arn, policy_i>>
queue_locals == <<waiting, num_waits, response>>
fanout_locals == <<env_vars, job_name, index>>
main_names == <<job_def_name, job_queue_name>>
inputs == <<argv, args, time_stamp>>
outcome == <<exit_code, exit_msg>>
history == <<repo_returns, role_returns, copied, docker_log, attach_log>>
peer == <<clock, peer_pc, peer_time_stamp, peer_repo_uri>>

vars == <<inputs, pc, outcome, provider, build_locals, role_locals,
          queue_locals, fanout_locals, main_names, calls, valid_seen,
          history, peer>>

nbs == args.name_base_string

TagsMut ==
  IF args.tags # << >>
  THEN [k \in 1..Len(args.tags) |-> args.tags[Len(args.tags) + 1 - k]]
  ELSE <<"latest">>

\* main: tags = args.tags if args.tags else ['latest'];
\* build_and_push: if not tags: tags = ['latest']
Tags == IF args.tags # << >> THEN args.tags ELSE <<"latest">>

\* the state of a run whose command line is parsed and whose names are
\* derived, about to execute the statement at start
InitWith(start, arguments) ==
  /\ args \in arguments
  /\ argv = args
  /\ time_stamp \in TimeStamps
  /\ pc = start
  /\ exit_code = -1
  /\ exit_msg = ""
  /\ repositories \in SUBSET { RepoName(nbs, time_stamp) }
  /\ roles \in SUBSET { JobRoleName(nbs, time_stamp) }
  /\ attached_policies = {}
  /\ job_definitions = {}
  /\ job_queues = {}
  /\ jobs = << >>
  /\ pushed = {}
  /\ builds = 0
  /\ requirements_txt \in BOOLEAN
  /\ tag_i = 1
  /\ repo_uri = << >>
  /\ role_arn = << >>
  /\ policy_i = 1
  /\ job_def_name = JobDefName(nbs, time_stamp)
  /\ job_queue_name = JobQueueName(nbs, time_stamp)
  /\ waiting = TRUE
  /\ num_waits = 0
  /\ response = "none"
  /\ env_vars = << >>
  /\ job_name = JobNameBase(nbs, time_stamp)
  /\ index = 0
  /\ calls = [op \in ProviderOps |-> 0]
  /\ valid_seen = {}
  /\ repo_returns = << >>
  /\ role_returns = << >>
  /\ copied = FALSE
  /\ docker_log = << >>
  /\ attach_log = << >>
  /\ clock = 0
  /\ peer_pc = "idle"
  /\ peer_time_stamp = ""
  /\ peer_repo_uri = << >>

\* the command lines of submit_batch_job.main
MainArgs ==
  [ name_base_string : NameBases,
    tags : TagLists,
    reqpath : BOOLEAN,
    policies : PolicyLists,
    retries : DefaultRetries,
    compute_environments : ComputeEnvLists,
    env_vars : EnvVarLists ]

InitAt(start) == InitWith(start, MainArgs)

\* submit_batch_job.main after the names are derived
Init == InitAt("describe_repositories")

Call(op) == calls' = [calls EXCEPT ![op] = @ + 1]

\* an uncaught exception ends the process with a traceback and status 1
Die(msg) ==
  /\ pc' = "exit"
  /\ exit_code' = 1
  /\ exit_msg' = msg

SysExitMut(msg) ==
  /\ pc' = "env_vars"
  /\ exit_code' = exit_code
  /\ exit_msg' = msg

\* sys.exit(message): the message is printed and the process ends with
\* status 1
SysExit(msg) ==
  /\ pc' = "exit"
  /\ exit_code' = 1
  /\ exit_msg' = msg

(***************************************************************************)
(* build_and_push                                                          *)
(***************************************************************************)
RepositoryFoundMut(name, repos) == FALSE

\* describe_repositories answers for a repository that exists and raises
\* RepositoryNotFoundException for one that does not
RepositoryFound(name, repos) == name \in repos

DescribeRepositories ==
  /\ pc = "describe_repositories"
  /\ Call("describe_repositories")
  /\ \/ /\ RepositoryFound(RepoName(nbs, time_stamp), repositories)
        /\ repo_uri' = RepositoryUri(RepoName(nbs, time_stamp))
        /\ pc' = "copy_requirements"
        /\ UNCHANGED outcome
     \/ /\ ~RepositoryFound(RepoName(nbs, time_stamp), repositories)
        /\ pc' = "create_repository"
        /\ UNCHANGED <<repo_uri, outcome>>
     \/ /\ Die("error")
        /\ UNCHANGED repo_uri
  /\ UNCHANGED <<inputs, peer, history, provider, tag_i, role_locals, queue_locals,
                 fanout_locals, main_names, valid_seen>>

CreateRepository ==
  /\ pc = "create_repository"
  /\ Call("create_repository")
  /\ \/ IF RepoName(nbs, time_stamp) \in repositories
        THEN \* RepositoryAlreadyExistsException is not caught
             /\ Die("exists")
             /\ UNCHANGED <<repositories, repo_uri>>
        ELSE /\ repositories' = repositories \cup { RepoName(nbs, time_stamp) }
             /\ repo_uri' = RepositoryUri(RepoName(nbs, time_stamp))
             /\ pc' = "copy_requirements"
             /\ UNCHANGED outcome
     \/ /\ Die("error")
        /\ UNCHANGED <<repositories, repo_uri>>
  /\ UNCHANGED <<inputs, peer, history, roles, attached_policies, job_definitions, job_queues,
                 jobs, pushed, builds, requirements_txt, tag_i, role_locals,
                 queue_locals, fanout_locals, main_names, valid_seen>>

CopyRequirements ==
  /\ pc = "copy_requirements"
  /\ requirements_txt' = IF args.reqpath /\ ~requirements_txt
                         THEN TRUE ELSE requirements_txt
  /\ copied' = IF args.reqpath /\ ~requirements_txt THEN TRUE ELSE copied
  /\ pc' = "docker_build"
  /\ UNCHANGED <<inputs, peer, repo_returns, role_returns, attach_log, docker_log, outcome, repositories, roles, attached_policies,
                 job_definitions, job_queues, jobs, pushed, builds,
                 build_locals, role_locals, queue_locals, fanout_locals,
                 main_names, calls, valid_seen>>

DockerBuild ==
  /\ pc = "docker_build"
  /\ \/ /\ builds' = builds + 1
        /\ docker_log' = Append(docker_log, <<"build", Tags[tag_i]>>)
        /\ pc' = "docker_tag"
        /\ UNCHANGED outcome
     \/ /\ Die("error")
        /\ UNCHANGED <<builds, docker_log>>
  /\ UNCHANGED <<inputs, peer, repo_returns, role_returns, attach_log, copied, repositories, roles, attached_policies,
                 job_definitions, job_queues, jobs, pushed, requirements_txt,
                 build_locals, role_locals, queue_locals, fanout_locals,
                 main_names, calls, valid_seen>>

DockerTag ==
  /\ pc = "docker_tag"
  /\ \/ /\ docker_log' = Append(docker_log, <<"tag", Tags[tag_i]>>)
        /\ pc' = "docker_push"
        /\ UNCHANGED outcome
     \/ /\ Die("error")
        /\ UNCHANGED docker_log
  /\ UNCHANGED <<inputs, peer, repo_returns, role_returns, attach_log, copied, provider, build_locals, role_locals, queue_locals,
                 fanout_locals, main_names, calls, valid_seen>>

LastTagMut(i) == TRUE

\* for tag in tags: the loop ends after the last tag
LastTag(i) == i = Len(Tags)

DockerPush ==
  /\ pc = "docker_push"
  /\ \/ /\ pushed' = pushed \cup { <<repo_uri, Tags[tag_i]>> }
        /\ docker_log' = Append(docker_log, <<"push", Tags[tag_i]>>)
        /\ tag_i' = tag_i + 1
        /\ pc' = IF LastTag(tag_i) THEN "remove_requirements"
                 ELSE "docker_build"
        /\ UNCHANGED outcome
     \/ /\ Die("error")
        /\ UNCHANGED <<pushed, tag_i, docker_log>>
  /\ UNCHANGED <<inputs, peer, repo_returns, role_returns, attach_log, copied, repositories, roles, attached_policies,
                 job_definitions, job_queues, jobs, builds, requirements_txt,
                 repo_uri, role_locals, queue_locals, fanout_locals,
                 main_names, calls, valid_seen>>

\* if reqpath and not os.path.isfile(...): os.remove(...); return
RemoveRequirements ==
  /\ pc = "remove_requirements"
  /\ IF args.reqpath /\ ~requirements_txt
     THEN \* os.remove of a file that does not exist
          /\ Die("error")
          /\ UNCHANGED repo_returns
     ELSE /\ repo_returns' = Append(repo_returns,
                                    <<RepoName(nbs, time_stamp), repo_uri>>)
          /\ pc' = "create_role"
          /\ UNCHANGED outcome
  /\ tag_i' = 1
  /\ UNCHANGED <<inputs, peer, role_returns, attach_log, copied, docker_log, provider, repo_uri, role_locals, queue_locals,
                 fanout_locals, main_names, calls, valid_seen>>

(***************************************************************************)
(* create_role_attach_policy                                               *)
(***************************************************************************)
EntityAlreadyExistsMut == Die("exists")

\* except iam.exceptions.EntityAlreadyExistsException: fall back to get_role
EntityAlreadyExists ==
  /\ pc' = "get_role"
  /\ UNCHANGED outcome

CreateRole ==
  /\ pc = "create_role"
  /\ Call("create_role")
  /\ \/ /\ JobRoleName(nbs, time_stamp) \notin roles
        /\ roles' = roles \cup { JobRoleName(nbs, time_stamp) }
        /\ role_arn' = RoleArn(JobRoleName(nbs, time_stamp))
        /\ pc' = "list_policies"
        /\ UNCHANGED outcome
     \/ /\ JobRoleName(nbs, time_stamp) \in roles
        /\ EntityAlreadyExists
        /\ UNCHANGED <<roles, role_arn>>
     \/ /\ Die("error")
        /\ UNCHANGED <<roles, role_arn>>
  /\ UNCHANGED <<inputs, peer, history, repositories, attached_policies, job_definitions,
                 job_queues, jobs, pushed, builds, requirements_txt,
                 build_locals, policy_i, queue_locals, fanout_locals,
                 main_names, valid_seen>>

GetRole ==
  /\ pc = "get_role"
  /\ Call("get_role")
  /\ \/ /\ role_arn' = RoleArn(JobRoleName(nbs, time_stamp))
        /\ pc' = "list_policies"
        /\ UNCHANGED outcome
     \/ /\ Die("error")
        /\ UNCHANGED role_arn
  /\ UNCHANGED <<inputs, peer, history, provider, build_locals, policy_i, queue_locals,
                 fanout_locals, main_names, valid_seen>>

ListPolicies ==
  /\ pc = "list_policies"
  /\ Call("list_policies")
  /\ \/ /\ pc' = "attach_role_policy"
        /\ UNCHANGED outcome
     \/ Die("error")
  /\ UNCHANGED <<inputs, peer, history, provider, build_locals, role_locals, queue_locals,
                 fanout_locals, main_names, valid_seen>>

PolicyAtMut(i) == args.policies[1]

\* for policy in policy_names: the policy of the i-th iteration
PolicyAt(i) == args.policies[i]

PolicyFoundMut(policy) == TRUE

\* list(filter(lambda p: p['PolicyName'] == policy, ...)) is not empty
PolicyFound(policy) == policy \in AWSPolicies

\* one iteration of: for policy in policy_names
AttachRolePolicy ==
  /\ pc = "attach_role_policy"
  /\ LET policy == PolicyAt(policy_i) IN
     IF ~PolicyFound(policy)
     THEN \* list(filter(...))[0] raises IndexError
          /\ Die("IndexError")
          /\ UNCHANGED <<attached_policies, policy_i, calls, role_returns,
                         attach_log>>
     ELSE /\ Call("attach_role_policy")
          /\ \/ /\ attached_policies' = attached_policies
                      \cup { <<JobRoleName(nbs, time_stamp), policy>> }
                /\ attach_log' = Append(attach_log,
                       <<JobRoleName(nbs, time_stamp), policy>>)
                /\ IF policy_i = Len(args.policies)
                   THEN /\ policy_i' = 1
                        /\ role_returns' = Append(role_returns,
                               <<JobRoleName(nbs, time_stamp), role_arn>>)
                        /\ pc' = "register_job_definition"
                   ELSE /\ policy_i' = policy_i + 1
                        /\ pc' = pc
                        /\ UNCHANGED role_returns
                /\ UNCHANGED outcome
             \/ /\ Die("error")
                /\ UNCHANGED <<attached_policies, policy_i, role_returns,
                               attach_log>>
  /\ UNCHANGED <<inputs, peer, repo_returns, copied, docker_log, repositories, roles, job_definitions, job_queues,
                 jobs, pushed, builds, requirements_txt, build_locals,
                 role_arn, queue_locals, fanout_locals, main_names,
                 valid_seen>>

(***************************************************************************)
(* create_job_definition                                                   *)
(***************************************************************************)
JobDefinitionMut(name, job_role_arn, container_uri, retries) ==
  [ jobDefinitionName |-> name,
    jobDefinitionArn |-> JobDefinitionArn(name),
    image |-> job_role_arn,
    jobRoleArn |-> container_uri,
    retryStrategy |-> [attempts |-> retries] ]

\* the job definition batch.register_job_definition registers
JobDefinition(name, job_role_arn, container_uri, retries) ==
  [ jobDefinitionName |-> name,
    jobDefinitionArn |-> JobDefinitionArn(name),
    image |-> container_uri,
    jobRoleArn |-> job_role_arn,
    retryStrategy |-> [attempts |-> retries] ]

RegisterJobDefinition ==
  /\ pc = "register_job_definition"
  /\ Call("register_job_definition")
  /\ \/ /\ job_definitions' = job_definitions \cup
              { JobDefinition(job_def_name, role_arn, repo_uri,
                              args.retries) }
        /\ pc' = "create_job_queue"
        /\ UNCHANGED outcome
     \/ /\ Die("error")
        /\ UNCHANGED job_definitions
  /\ UNCHANGED <<inputs, peer, history, repositories, roles, attached_policies, job_queues,
                 jobs, pushed, builds, requirements_txt, build_locals,
                 role_locals, queue_locals, fanout_locals, main_names,
                 valid_seen>>

(***************************************************************************)
(* create_job_queue                                                        *)
(***************************************************************************)
CreateJobQueue ==
  /\ pc = "create_job_queue"
  /\ Call("create_job_queue")
  /\ \/ /\ job_queues' = job_queues \cup
              { [ jobQueueName |-> job_queue_name,
                  jobQueueArn |-> JobQueueArn(job_queue_name),
                  computeEnvironmentOrder |->
                      ComputeEnvironmentOrder(args.compute_environments) ] }
        /\ waiting' = TRUE
        /\ num_waits' = 0
        /\ pc' = "describe_job_queues"
        /\ UNCHANGED outcome
     \/ /\ Die("error")
        /\ UNCHANGED <<job_queues, waiting, num_waits>>
  /\ UNCHANGED <<inputs, peer, history, repositories, roles, attached_policies,
                 job_definitions, jobs, pushed, builds, requirements_txt,
                 build_locals, role_locals, response, fanout_locals,
                 main_names, valid_seen>>

\* the queue the provider describes for a name
DescribedQueue(name) == CHOOSE q \in job_queues : q.jobQueueName = name

\* one iteration of: while waiting
LeftInPlaceMut(queues) == {}

\* the job queues after the wait gave up: sys.exit is all the code does, no
\* delete_job_queue precedes it
LeftInPlace(queues) == queues

DescribeJobQueues ==
  /\ pc = "describe_job_queues"
  /\ waiting
  /\ Call("describe_job_queues")
  /\ \/ \E status \in QueueStatuses :
          /\ response' = status
          /\ valid_seen' = IF status = "VALID"
                           THEN valid_seen \cup { job_queue_name }
                           ELSE valid_seen
          /\ waiting' = Waiting(status)
          /\ num_waits' = num_waits + 1
          /\ job_queues' = IF WaitedTooLong(num_waits')
                            THEN LeftInPlace(job_queues)
                            ELSE job_queues
          /\ IF WaitedTooLong(num_waits')
             THEN /\ SysExit("timeout")
                  /\ UNCHANGED job_queue_name
             ELSE IF waiting'
             THEN /\ pc' = pc
                  /\ UNCHANGED <<job_queue_name, outcome>>
             ELSE /\ job_queue_name' = DescribedQueue(job_queue_name).jobQueueName
                  /\ pc' = "env_vars"
                  /\ UNCHANGED outcome
     \/ /\ Die("error")
        /\ UNCHANGED <<queue_locals, job_queue_name, valid_seen, job_queues>>
  /\ UNCHANGED <<inputs, peer, history, repositories, roles,
                 attached_policies, job_definitions, jobs, pushed, builds,
                 requirements_txt, build_locals, role_locals, fanout_locals,
                 job_def_name>>

(***************************************************************************)
(* main: environment variables and the fan-out                             *)
(***************************************************************************)
\* if args.env_vars: assert len(args.env_vars) % 2 == 0; pair the tokens up
BuildEnvVars ==
  /\ pc = "env_vars"
  /\ IF args.env_vars # << >> /\ ~EvenLength(args.env_vars)
     THEN /\ Die("assert")
          /\ UNCHANGED env_vars
     ELSE /\ env_vars' = PairUp(args.env_vars)
          /\ pc' = "submit_job"
          /\ UNCHANGED outcome
  /\ UNCHANGED <<inputs, peer, history, provider, build_locals, role_locals, queue_locals,
                 job_name, index, main_names, calls, valid_seen>>

SubmitErrorMut ==
  /\ pc' = pc
  /\ UNCHANGED outcome

\* an exception of batch.submit_job is not caught: the run ends
SubmitError == Die("error")

\* one iteration of: for index in range(range_max)
SubmitJob ==
  /\ pc = "submit_job"
  /\ index < range_max
  /\ job_name' = NextJobName(job_name, index)
  /\ Call("submit_job")
  /\ \/ /\ jobs' = Append(jobs, SubmitRequest(job_name', job_queue_name,
                                  job_def_name, Commands(index), env_vars))
        /\ index' = index + 1
        /\ IF index + 1 = range_max
           THEN pc' = "done" /\ exit_code' = 0 /\ UNCHANGED exit_msg
           ELSE pc' = pc /\ UNCHANGED outcome
     \/ /\ SubmitError
        /\ UNCHANGED <<jobs, index>>
  /\ UNCHANGED <<inputs, peer, history, repositories, roles, attached_policies,
                 job_definitions, job_queues, pushed, builds,
                 requirements_txt, build_locals, role_locals, queue_locals,
                 env_vars, main_names, valid_seen>>

Next ==
  \/ DescribeRepositories
  \/ CreateRepository
  \/ CopyRequirements
  \/ DockerBuild
  \/ DockerTag
  \/ DockerPush
  \/ RemoveRequirements
  \/ CreateRole
  \/ GetRole
  \/ ListPolicies
  \/ AttachRolePolicy
  \/ RegisterJobDefinition
  \/ CreateJobQueue
  \/ DescribeJobQueues
  \/ BuildEnvVars
  \/ SubmitJob

Spec == Init /\ [][Next]_vars

(***************************************************************************)
(* iam_role.py run as a script, twice with the same role name              *)
(***************************************************************************)
\* iam_role.main is invoked again after create_role_attach_policy returned
RoleMainAgain ==
  /\ pc = "register_job_definition"
  /\ Len(role_returns) < 2
  /\ pc' = "create_role"
  /\ UNCHANGED <<inputs, peer, history, outcome, provider, build_locals,
                 role_locals, queue_locals, fanout_locals, main_names,
                 calls, valid_seen>>

InitRole == InitAt("create_role")

NextRole ==
  \/ CreateRole
  \/ GetRole
  \/ ListPolicies
  \/ AttachRolePolicy
  \/ RoleMainAgain

SpecRole == InitRole /\ [][NextRole]_vars

(***************************************************************************)
(* create_role_attach_policy called once                                   *)
(***************************************************************************)
NextAttach ==
  \/ CreateRole
  \/ GetRole
  \/ ListPolicies
  \/ AttachRolePolicy

SpecAttach == InitRole /\ [][NextAttach]_vars

(***************************************************************************)
(* build_push_repo.py run as a script, twice with the same repository name *)
(***************************************************************************)
\* build_push_repo.main is invoked again after build_and_push returned
BuildMainAgain ==
  /\ pc = "create_role"
  /\ Len(repo_returns) < 2
  /\ pc' = "describe_repositories"
  /\ copied' = FALSE
  /\ UNCHANGED <<inputs, peer, repo_returns, role_returns, attach_log, docker_log,
                 outcome, provider, build_locals, role_locals, queue_locals,
                 fanout_locals, main_names, calls, valid_seen>>

NextRepo ==
  \/ DescribeRepositories
  \/ CreateRepository
  \/ CopyRequirements
  \/ DockerBuild
  \/ DockerTag
  \/ DockerPush
  \/ RemoveRequirements
  \/ BuildMainAgain

SpecRepo == Init /\ [][NextRepo]_vars

(***************************************************************************)
(* build_and_push called once                                              *)
(***************************************************************************)
NextBuild ==
  \/ DescribeRepositories
  \/ CreateRepository
  \/ CopyRequirements
  \/ DockerBuild
  \/ DockerTag
  \/ DockerPush
  \/ RemoveRequirements

SpecBuild == Init /\ [][NextBuild]_vars

(***************************************************************************)
(* Two runs of submit_batch_job.py with the same name base, concurrently:  *)
(* each reads the clock, derives its names and ensures its repository      *)
(***************************************************************************)
\* str(now.date()).replace('-', '') + '-'
\*    + str(now.time()).split('.')[0].replace(':', '')
\* the fraction of the second is cut off; the clock stays within one day
TimeStampAt(c) == "20180101-12000" \o Digits[(c \div TicksPerSecond) + 1]

Tick ==
  /\ clock < MaxClock
  /\ clock' = clock + 1
  /\ UNCHANGED <<inputs, pc, outcome, provider, build_locals, role_locals,
                 queue_locals, fanout_locals, main_names, calls, valid_seen,
                 history, peer_pc, peer_time_stamp, peer_repo_uri>>

\* main: time_stamp and the names derived from it
Start ==
  /\ pc = "start"
  /\ time_stamp' = TimeStampAt(clock)
  /\ job_def_name' = JobDefName(nbs, time_stamp')
  /\ job_queue_name' = JobQueueName(nbs, time_stamp')
  /\ job_name' = JobNameBase(nbs, time_stamp')
  /\ pc' = "describe_repositories"
  /\ UNCHANGED <<argv, args, outcome, provider, build_locals, role_locals,
                 queue_locals, env_vars, index, calls, valid_seen, history,
                 peer>>

PeerStart ==
  /\ peer_pc = "start"
  /\ peer_time_stamp' = TimeStampAt(clock)
  /\ peer_pc' = "describe_repositories"
  /\ UNCHANGED <<inputs, pc, outcome, provider, build_locals, role_locals,
                 queue_locals, fanout_locals, main_names, calls, valid_seen,
                 history, clock, peer_repo_uri>>

PeerDescribeRepositories ==
  /\ peer_pc = "describe_repositories"
  /\ \/ /\ RepositoryFound(RepoName(nbs, peer_time_stamp), repositories)
        /\ peer_repo_uri' = RepositoryUri(RepoName(nbs, peer_time_stamp))
        /\ peer_pc' = "copy_requirements"
     \/ /\ ~RepositoryFound(RepoName(nbs, peer_time_stamp), repositories)
        /\ peer_pc' = "create_repository"
        /\ UNCHANGED peer_repo_uri
     \/ /\ peer_pc' = "exit"
        /\ UNCHANGED peer_repo_uri
  /\ UNCHANGED <<inputs, pc, outcome, provider, build_locals, role_locals,
                 queue_locals, fanout_locals, main_names, calls, valid_seen,
                 history, clock, peer_time_stamp>>

PeerCreateRepository ==
  /\ peer_pc = "create_repository"
  /\ \/ IF RepoName(nbs, peer_time_stamp) \in repositories
        THEN \* RepositoryAlreadyExistsException is not caught
             /\ peer_pc' = "exit_exists"
             /\ UNCHANGED <<repositories, peer_repo_uri>>
        ELSE /\ repositories' = repositories
                                  \cup { RepoName(nbs, peer_time_stamp) }
             /\ peer_repo_uri' = RepositoryUri(RepoName(nbs, peer_time_stamp))
             /\ peer_pc' = "copy_requirements"
     \/ /\ peer_pc' = "exit"
        /\ UNCHANGED <<repositories, peer_repo_uri>>
  /\ UNCHANGED <<inputs, pc, outcome, roles, attached_policies,
                 job_definitions, job_queues, jobs, pushed, builds,
                 requirements_txt, build_locals, role_locals, queue_locals,
                 fanout_locals, main_names, calls, valid_seen, history,
                 clock, peer_time_stamp>>

InitConcurrent ==
  /\ args \in MainArgs
  /\ argv = args
  /\ time_stamp = ""
  /\ pc = "start"
  /\ exit_code = -1
  /\ exit_msg = ""
  /\ repositories = {}
  /\ roles = {}
  /\ attached_policies = {}
  /\ job_definitions = {}
  /\ job_queues = {}
  /\ jobs = << >>
  /\ pushed = {}
  /\ builds = 0
  /\ requirements_txt \in BOOLEAN
  /\ tag_i = 1
  /\ repo_uri = << >>
  /\ role_arn = << >>
  /\ policy_i = 1
  /\ job_def_name = << >>
  /\ job_queue_name = << >>
  /\ waiting = TRUE
  /\ num_waits = 0
  /\ response = "none"
  /\ env_vars = << >>
  /\ job_name = << >>
  /\ index = 0
  /\ calls = [op \in ProviderOps |-> 0]
  /\ valid_seen = {}
  /\ repo_returns = << >>
  /\ role_returns = << >>
  /\ copied = FALSE
  /\ docker_log = << >>
  /\ attach_log = << >>
  /\ clock = 0
  /\ peer_pc = "start"
  /\ peer_time_stamp = ""
  /\ peer_repo_uri = << >>

NextConcurrent ==
  \/ Tick
  \/ Start
  \/ PeerStart
  \/ DescribeRepositories
  \/ CreateRepository
  \/ PeerDescribeRepositories
  \/ PeerCreateRepository

SpecConcurrent == InitConcurrent /\ [][NextConcurrent]_vars

(***************************************************************************)
(* submit_batch_job.main with up to two environment variables              *)
(***************************************************************************)
MaxPairedLen == 4

EnvArgs ==
  [ name_base_string : NameBases,
    tags : { << >> },
    reqpath : { FALSE },
    policies : { <<"AmazonS3FullAccess">> },
    retries : DefaultRetries,
    compute_environments : ComputeEnvLists,
    env_vars : SeqsUpTo(EnvTokens, MaxPairedLen) ]

InitEnv == InitWith("describe_repositories", EnvArgs)

SpecEnv == InitEnv /\ [][Next]_vars

(***************************************************************************)
(* create_job_queue with one or more compute environments                  *)
(***************************************************************************)
MaxComputeEnvs == 2

ComputeEnvNames == { "first-run-compute-environment", "spot-environment" }

\* --compute-environments has nargs='+': at least one name
QueueArgs ==
  [ name_base_string : NameBases,
    tags : { << >> },
    reqpath : { FALSE },
    policies : { <<"AmazonS3FullAccess">> },
    retries : DefaultRetries,
    compute_environments :
        SeqsUpTo(ComputeEnvNames, MaxComputeEnvs) \ { << >> },
    env_vars : { << >> } ]

\* a run about to call create_job_queue
InitQueue == InitWith("create_job_queue", QueueArgs)

NextQueue ==
  \/ CreateJobQueue
  \/ DescribeJobQueues

\* the process keeps running: time.sleep returns and every call of the
\* provider returns or raises
SpecQueue == InitQueue /\ [][NextQueue]_vars /\ WF_vars(NextQueue)

(***************************************************************************)
(* define_batch_job.py run as a script                                     *)
(***************************************************************************)
\* values of --retries: type=int accepts every integer
RetriesValues == {-1, 0, 1, 3}

\* default of --job-role-name
DefaultJobRoleName == <<"afqBatchJobRole">>

GivenRoleNames == { <<"my-role">> }

GivenRoleArns == { <<"arn:iam:role/", "other-role">> }

\* the command lines of define_batch_job.main; an option that is not given
\* is the empty list
DefCommandLines ==
  [ job_def_name : { <<"my-job-def">> },
    job_role_name : { << >> } \cup GivenRoleNames,
    job_role_arn : { << >> } \cup GivenRoleArns,
    container_uri : { <<"ecr://", "my-repo">> },
    retries : RetriesValues ]

\* the required mutually exclusive group: exactly one of --job-role-name and
\* --job-role-arn must be given
UsageError(cl) == (cl.job_role_name # << >>) = (cl.job_role_arn # << >>)

\* the namespace of a command line: an option that is not given takes its
\* default, None (the empty list) where none is declared
ParseArgs(cl) ==
  [cl EXCEPT !.job_role_name = IF @ = << >> THEN DefaultJobRoleName ELSE @]

\* args = argparser.parse_args()
DefParseArgs ==
  /\ pc = "def_parse_args"
  /\ IF UsageError(argv)
     THEN /\ pc' = "exit"
          /\ exit_code' = 2
          /\ exit_msg' = "usage"
          /\ UNCHANGED args
     ELSE /\ args' = ParseArgs(argv)
          /\ pc' = "def_job_role"
          /\ UNCHANGED outcome
  /\ UNCHANGED <<argv, time_stamp, peer, history, provider, build_locals,
                 role_locals, queue_locals, fanout_locals, main_names,
                 calls, valid_seen>>

\* if args.job_role_name: look the role up, else take args.job_role_arn;
\* then the call of create_job_definition binds its parameters
DefJobRole ==
  /\ pc = "def_job_role"
  /\ IF args.job_role_name # << >>
     THEN /\ Call("get_role")
          /\ IF args.job_role_name \in roles
             THEN /\ role_arn' = RoleArn(args.job_role_name)
                  /\ pc' = "register_job_definition"
                  /\ UNCHANGED outcome
             ELSE /\ Die("NoSuchEntity")
                  /\ UNCHANGED role_arn
     ELSE /\ role_arn' = args.job_role_arn
          /\ pc' = "register_job_definition"
          /\ UNCHANGED <<calls, outcome>>
  /\ job_def_name' = args.job_def_name
  /\ repo_uri' = args.container_uri
  /\ UNCHANGED <<inputs, peer, history, provider, tag_i, policy_i,
                 queue_locals, fanout_locals, job_queue_name, valid_seen>>

\* define_batch_job.main about to parse its command line
InitDef ==
  /\ argv \in DefCommandLines
  /\ args = argv
  /\ time_stamp \in TimeStamps
  /\ pc = "def_parse_args"
  /\ exit_code = -1
  /\ exit_msg = ""
  /\ repositories = {}
  /\ roles \in SUBSET ({ DefaultJobRoleName } \cup GivenRoleNames)
  /\ attached_policies = {}
  /\ job_definitions = {}
  /\ job_queues = {}
  /\ jobs = << >>
  /\ pushed = {}
  /\ builds = 0
  /\ requirements_txt = TRUE
  /\ tag_i = 1
  /\ repo_uri = << >>
  /\ role_arn = << >>
  /\ policy_i = 1
  /\ job_def_name = << >>
  /\ job_queue_name = << >>
  /\ waiting = TRUE
  /\ num_waits = 0
  /\ response = "none"
  /\ env_vars = << >>
  /\ job_name = << >>
  /\ index = 0
  /\ calls = [op \in ProviderOps |-> 0]
  /\ valid_seen = {}
  /\ repo_returns = << >>
  /\ role_returns = << >>
  /\ copied = FALSE
  /\ docker_log = << >>
  /\ attach_log = << >>
  /\ clock = 0
  /\ peer_pc = "idle"
  /\ peer_time_stamp = ""
  /\ peer_repo_uri = << >>

NextDef ==
  \/ DefParseArgs
  \/ DefJobRole
  \/ RegisterJobDefinition

SpecDef == InitDef /\ [][NextDef]_vars

TypeOK ==
  /\ pc \in { "start", "def_parse_args", "def_job_role",
              "describe_repositories", "create_repository",
              "copy_requirements", "docker_build", "docker_tag",
              "docker_push", "remove_requirements", "create_role",
              "get_role", "list_policies", "attach_role_policy",
              "register_job_definition", "create_job_queue",
              "describe_job_queues", "env_vars", "submit_job", "done",
              "exit" }
  /\ exit_code \in {-1, 0, 1, 2}
  /\ num_waits \in 0..(MaxWaits + 1)
  /\ index \in 0..range_max
  /\ Len(jobs) = index

(***************************************************************************)
(* Vocabulary of the properties                                            *)
(***************************************************************************)
OddEnvVars == Len(args.env_vars) % 2 = 1

StatusChecks == calls["describe_job_queues"]

DigitValue(c) == CHOOSE d \in 0..9 : Digits[d + 1] = c

\* value of a non-empty string of decimal digits
RECURSIVE DecValue(_)
DecValue(s) == IF Len(s) = 1 THEN DigitValue(s[1])
               ELSE 10 * DecValue(SubSeq(s, 1, Len(s) - 1)) + DigitValue(s[Len(s)])

\* the digits a name ends with
RECURSIVE TrailingDigits(_)
TrailingDigits(s) ==
  IF s = << >> \/ ~IsDigit(s[Len(s)]) THEN << >>
  ELSE TrailingDigits(SubSeq(s, 1, Len(s) - 1)) \o << s[Len(s)] >>

RECURSIVE Pow10(_)
Pow10(k) == IF k = 0 THEN 1 ELSE 10 * Pow10(k - 1)

\* the w with 10^(w-1) <= count < 10^w, that is floor(log10(count)) + 1
WidthFor(count) == CHOOSE w \in 1..6 : Pow10(w - 1) <= count /\ count < Pow10(w)

\* the tags of the docker calls of one kind, in the order of the calls
RECURSIVE TagsOf(_, _)
TagsOf(log, op) ==
  IF log = << >> THEN << >>
  ELSE (IF log[1][1] = op THEN << log[1][2] >> ELSE << >>)
          \o TagsOf(Tail(log), op)

\* the time stamps carried by the names of the resources at the provider
StampsInUse ==
  { n[Len(n)] : n \in repositories \cup roles }
    \cup { d.jobDefinitionName[Len(d.jobDefinitionName)] : d \in job_definitions }
    \cup { q.jobQueueName[Len(q.jobQueueName)] : q \in job_queues }
    \cup { jobs[k].jobName[Len(JobNameBase(nbs, time_stamp))] : k \in 1..Len(jobs) }

(***************************************************************************)
(* Properties                                                              *)
(***************************************************************************)

\* C1: every submitted job references a queue for which an earlier status
\* check of this run returned VALID, whatever statuses the provider reports
\* and wherever the run aborts.
C1_ValidBeforeSubmit ==
  /\ \A k \in 1..Len(jobs) : jobs[k].jobQueue \in valid_seen
  /\ calls["submit_job"] > 0 => job_queue_name \in valid_seen

\* a job was submitted to a queue that reported other statuses before VALID
C1_Witness ==
  /\ Len(jobs) > 0
  /\ StatusChecks > 1

\* C2 (as stated): a wait whose checks never see VALID aborts after exactly
\* MaxWaits status checks.
C2_ExactlyMaxWaitsChecks ==
  (exit_msg = "timeout" /\ valid_seen = {}) => StatusChecks = MaxWaits

\* C3 (as stated): a status check that observes VALID makes the wait return:
\* the wait is over and the run has not aborted with the timeout.
C3_ValidReturns ==
  response = "VALID" => (pc # "describe_job_queues" /\ exit_msg # "timeout")

\* C4: a timeout of the wait ends the process with a non-zero status, and
\* from then on no job is submitted and no provider call is made.
C4_TimeoutIsFatal ==
  /\ [](exit_msg = "timeout" => (pc = "exit" /\ exit_code # 0 /\ jobs = << >>))
  /\ [][exit_msg = "timeout" => (calls' = calls /\ provider' = provider)]_vars

\* the wait ran out of attempts without ever seeing VALID
C4_Witness ==
  /\ exit_msg = "timeout"
  /\ valid_seen = {}
  /\ StatusChecks > 0

\* C5: a run given an odd-length --env-vars list never calls submit_job:
\* it submits 0 jobs and never enters the fan-out.
C5_OddEnvVarsSubmitNothing ==
  OddEnvVars => ( /\ calls["submit_job"] = 0
                  /\ jobs = << >>
                  /\ pc \notin {"submit_job", "done"} )

\* an odd-length list reached the check and was rejected
C5_Witness ==
  /\ OddEnvVars
  /\ exit_msg = "assert"
  /\ Len(args.env_vars) >= 3

\* C6 (as stated): a run rejected for its odd-length --env-vars list has
\* made no remote call that creates something: no repository, role, policy
\* attachment, job definition or queue was created.
C6_OddEnvVarsNoSideEffects ==
  (OddEnvVars /\ exit_msg = "assert") =>
      ( /\ calls["create_repository"] = 0
        /\ calls["create_role"] = 0
        /\ attached_policies = {}
        /\ job_definitions = {}
        /\ job_queues = {} )

\* C7 (as stated): the name of the job of index i is the job-name base
\* followed by the suffix of index i only, with no suffix of an earlier index.
C7_NamesFromBase ==
  \A k \in 1..Len(jobs) :
     jobs[k].jobName = JobNameBase(nbs, time_stamp) \o <<"-">>
                          \o FormatIndex(k - 1, WidthFor(range_max))

C9_OneJobPerIndex ==
  pc = "done" =>
    /\ Len(jobs) = range_max
    /\ calls["submit_job"] = range_max
    /\ \A k \in 1..Len(jobs) :
         LET command == jobs[k].containerOverrides.command IN
         /\ Len(command) = 2
         /\ command[1] = "--index"
         /\ Len(command[2]) >= 1
         /\ DecValue(command[2]) = k - 1
         /\ (Len(command[2]) > 1 => command[2][1] # "0")

\* the fan-out completed
C9_Witness ==
  /\ pc = "done"
  /\ exit_code = 0
  /\ jobs # << >>

\* C10: every submitted job references the queue the queue stage created
\* and returned and the job definition the spec stage registered and
\* returned, and all jobs of the run carry the same environment list.
C10_SameQueueSpecEnv ==
  \A k \in 1..Len(jobs) :
     /\ \E q \in job_queues : q.jobQueueName = jobs[k].jobQueue
     /\ \E d \in job_definitions : d.jobDefinitionName = jobs[k].jobDefinition
     /\ jobs[k].jobQueue = jobs[1].jobQueue
     /\ jobs[k].jobDefinition = jobs[1].jobDefinition
     /\ jobs[k].containerOverrides.environment
           = jobs[1].containerOverrides.environment
     /\ jobs[k].containerOverrides.environment = PairUp(args.env_vars)

\* several jobs were submitted with a non-empty environment
C10_Witness ==
  /\ Len(jobs) >= 2
  /\ jobs[2].containerOverrides.environment # << >>

\* C11: no provider operation of a stage is invoked before the stage before
\* it has returned (Registry, Role, JobSpec, Queue, Fanout, in this order),
\* and every registered job definition carries the role arn returned by the
\* Role stage and the image uri returned by the Registry stage.
C11_StageOrder ==
  /\ (calls["create_role"] + calls["get_role"] + calls["list_policies"]
        + calls["attach_role_policy"] > 0)
        => ( /\ Len(repo_returns) = 1
             /\ repo_returns[1][1] \in repositories
             /\ \A k \in 1..Len(Tags) : <<repo_returns[1][2], Tags[k]>> \in pushed )
  /\ calls["register_job_definition"] > 0
        => ( /\ Len(role_returns) = 1
             /\ role_returns[1][1] \in roles
             /\ \A k \in 1..Len(args.policies) :
                   <<role_returns[1][1], args.policies[k]>> \in attached_policies )
  /\ (calls["create_job_queue"] + calls["describe_job_queues"] > 0)
        => job_definitions # {}
  /\ calls["submit_job"] > 0
        => ( /\ job_queues # {}
             /\ \A q \in job_queues : q.jobQueueName \in valid_seen )
  /\ \A d \in job_definitions :
        /\ d.jobRoleArn = role_returns[1][2]
        /\ d.image = repo_returns[1][2]
        /\ \E r \in roles : d.jobRoleArn = RoleArn(r)
        /\ \E r \in repositories : d.image = RepositoryUri(r)

\* all five stages have run
C11_Witness ==
  /\ Len(jobs) > 0
  /\ Len(args.policies) > 1
  /\ Len(Tags) > 1

\* C12: a second call of role ensure-creation with the same name returns
\* what the first returned, leaves the roles of the provider as they were,
\* and the existence of the role never ends a call with an error.
C12_RoleIdempotent ==
  /\ [](exit_msg # "exists")
  /\ [](Len(role_returns) = 2 => role_returns[1] = role_returns[2])
  /\ [][Len(role_returns) >= 1 => roles' = roles]_vars

\* the second call found the role the first call created and returned
C12_Witness ==
  /\ Len(role_returns) = 2
  /\ calls["create_role"] = 2
  /\ calls["get_role"] = 1

\* C13: build_and_push gets or creates the repository: while a repository
\* of the name exists no create request is issued and the repositories stay
\* as they are, at most one create request is ever issued, a call returns
\* the uri of the repository of that name, and a second call returns what
\* the first returned.
C13_GetOrCreateRepository ==
  /\ [][RepoName(nbs, time_stamp) \in repositories
          => ( /\ calls'["create_repository"] = calls["create_repository"]
               /\ repositories' = repositories )]_vars
  /\ [](calls["create_repository"] <= 1)
  /\ [](exit_msg # "exists")
  /\ [](\A k \in 1..Len(repo_returns) :
          /\ repo_returns[k][1] \in repositories
          /\ repo_returns[k][2] = RepositoryUri(repo_returns[k][1])
          /\ repo_returns[k] = repo_returns[1])

\* the first call created the repository and the second one found it
C13_Witness ==
  /\ Len(repo_returns) = 2
  /\ calls["create_repository"] = 1
  /\ calls["describe_repositories"] = 2

\* C15 (as stated): a dependency manifest that build_and_push copied into
\* the build context is gone when build_and_push has returned.
C15_ManifestRemoved ==
  (copied /\ Len(repo_returns) >= 1) => ~requirements_txt

\* C16 (as stated): an invocation of build_and_push builds one image,
\* whatever the number of tags, and pushes it once under every tag.
C16_OneBuildPerInvocation ==
  Len(repo_returns) = 1 =>
     /\ builds = 1
     /\ TagsOf(docker_log, "push") = Tags

\* C16 (amended): an invocation of build_and_push builds the image once for
\* every tag, in the order of the tags, and pushes it once under every tag;
\* when no tags are given it builds and pushes once, under "latest".
C16_OneBuildPerTag ==
  Len(repo_returns) = 1 =>
     /\ builds = Len(Tags)
     /\ TagsOf(docker_log, "build") = Tags
     /\ TagsOf(docker_log, "push") = Tags
     /\ pushed = { <<repo_returns[1][2], Tags[k]>> : k \in 1..Len(Tags) }
     /\ args.tags = << >> => TagsOf(docker_log, "push") = <<"latest">>
     /\ args.tags # << >> => TagsOf(docker_log, "push") = args.tags

\* build_and_push returned after pushing under two tags
C16_Witness ==
  /\ Len(repo_returns) = 1
  /\ Len(args.tags) = 2
  /\ Cardinality(pushed) = 2

\* C17: when a requested policy name matches no listed policy the role
\* stage fails on it and the run ends there with a non-zero status: nothing
\* but listed policies is attached, the role stage does not return, and no
\* job definition is registered, no queue created and no job submitted.
C17_UnknownPolicyAborts ==
  /\ \A a \in attached_policies : a[2] \in AWSPolicies
  /\ exit_msg = "IndexError" => (pc = "exit" /\ exit_code # 0)
  /\ (\E k \in 1..Len(args.policies) : args.policies[k] \notin AWSPolicies)
       => ( /\ role_returns = << >>
            /\ calls["register_job_definition"] = 0
            /\ calls["create_job_queue"] = 0
            /\ calls["submit_job"] = 0
            /\ job_definitions = {}
            /\ job_queues = {}
            /\ jobs = << >> )

\* the role stage failed on an unknown policy after attaching a known one
C17_Witness ==
  /\ exit_msg = "IndexError"
  /\ attached_policies # {}

\* C18: the names of the repository, the role, the job definition, the
\* queue and the jobs of a run all carry one and the same time stamp.
C18_OneTimeStamp == Cardinality(StampsInUse) <= 1

\* all five kinds of resources of the run exist
C18_Witness ==
  /\ repositories # {}
  /\ roles # {}
  /\ job_definitions # {}
  /\ job_queues # {}
  /\ Len(jobs) >= 2
  /\ StampsInUse = { time_stamp }

\* C20: apart from the status check of the queue, a run calls every provider
\* operation at most once per resource: once for the repository, the role,
\* the job definition and the queue, once per policy and once per job index;
\* a call that failed is the last call of the run.
C20_NoRetries ==
  /\ \A op \in { "describe_repositories", "create_repository", "create_role",
                 "get_role", "list_policies", "register_job_definition",
                 "create_job_queue" } : calls[op] <= 1
  /\ calls["attach_role_policy"] <= Len(args.policies)
  /\ calls["attach_role_policy"] <= Cardinality(attached_policies) + 1
  /\ calls["attach_role_policy"] > Cardinality(attached_policies) => pc = "exit"
  /\ calls["submit_job"] <= range_max
  /\ calls["submit_job"] <= Len(jobs) + 1
  /\ calls["submit_job"] > Len(jobs) => pc = "exit"
  /\ \A j, k \in 1..Len(jobs) :
        jobs[j].containerOverrides.command = jobs[k].containerOverrides.command
           => j = k

\* a submission failed after others had succeeded, and the run ended
C20_Witness ==
  /\ pc = "exit"
  /\ Len(jobs) >= 1
  /\ calls["submit_job"] = Len(jobs) + 1

\* C14 (as stated): when two concurrent runs ensure a repository of the
\* same name, neither ends on the repository existing already, and the runs
\* that have obtained a uri have the same one.
C14_ConcurrentEnsure ==
  (pc # "start" /\ peer_pc # "start"
     /\ RepoName(nbs, time_stamp) = RepoName(nbs, peer_time_stamp))
  => ( /\ exit_msg # "exists"
       /\ peer_pc # "exit_exists"
       /\ (pc = "copy_requirements" /\ peer_pc = "copy_requirements")
             => repo_uri = peer_repo_uri )

\* C19 (as stated): two concurrent runs with the same name base derive
\* different names for the repository, the role, the job definition, the
\* queue and the jobs, whenever they were started.
C19_DistinctNames ==
  (pc # "start" /\ peer_pc # "start")
  => ( /\ RepoName(nbs, time_stamp) # RepoName(nbs, peer_time_stamp)
       /\ JobRoleName(nbs, time_stamp) # JobRoleName(nbs, peer_time_stamp)
       /\ JobDefName(nbs, time_stamp) # JobDefName(nbs, peer_time_stamp)
       /\ JobQueueName(nbs, time_stamp) # JobQueueName(nbs, peer_time_stamp)
       /\ JobNameBase(nbs, time_stamp) # JobNameBase(nbs, peer_time_stamp) )


\* what a sequence of submissions keeps of an earlier one
IsPrefix(s, t) == Len(s) <= Len(t) /\ SubSeq(t, 1, Len(s)) = s

\* C21: no stage rolls back: no step of a run, failing or not, removes a
\* repository, role, policy attachment, job definition, job queue, pushed
\* image or submitted job, and what the stages before a failure created is
\* still there when the run has ended.
C21_NoRollback ==
  /\ [][ /\ repositories \subseteq repositories'
         /\ roles \subseteq roles'
         /\ attached_policies \subseteq attached_policies'
         /\ job_definitions \subseteq job_definitions'
         /\ job_queues \subseteq job_queues'
         /\ pushed \subseteq pushed'
         /\ IsPrefix(jobs, jobs') ]_vars
  /\ [](Len(repo_returns) > 0 => RepoName(nbs, time_stamp) \in repositories)
  /\ [](Len(role_returns) > 0 => JobRoleName(nbs, time_stamp) \in roles)
  /\ [](calls["create_job_queue"] > 0 => job_definitions # {})
  /\ [](StatusChecks > 0 => job_queues # {})

\* the queue stage failed and the repository, the role, the job definition
\* and the queue of the earlier steps exist
C21_Witness ==
  /\ pc = "exit"
  /\ exit_msg = "timeout"
  /\ repositories # {}
  /\ roles # {}
  /\ job_definitions # {}
  /\ job_queues # {}


\* only --job-role-arn is on the command line
OnlyRoleArnGiven == argv.job_role_name = << >> /\ argv.job_role_arn # << >>

\* only --job-role-name is on the command line
OnlyRoleNameGiven == argv.job_role_name # << >> /\ argv.job_role_arn = << >>

\* C22 (as stated): every registered job definition has a retry strategy of
\* at least one attempt, whatever integer --retries carries.
C22_AttemptsAtLeastOne ==
  \A d \in job_definitions : d.retryStrategy.attempts >= 1

\* C23 (as stated): define_batch_job run with only --job-role-arn registers
\* the job definition with exactly that arn and looks no role up; run with
\* only --job-role-name it registers the arn the lookup of that name returns.
C23_RoleByNameOrArn ==
  /\ OnlyRoleArnGiven =>
        /\ calls["get_role"] = 0
        /\ \A d \in job_definitions : d.jobRoleArn = argv.job_role_arn
  /\ OnlyRoleNameGiven =>
        \A d \in job_definitions :
           /\ d.jobRoleArn = RoleArn(argv.job_role_name)
           /\ calls["get_role"] = 1


C26_QueueRequest ==
  /\ \A q \in job_queues :
        /\ Len(q.computeEnvironmentOrder) = Len(args.compute_environments)
        /\ \A i \in 1..Len(args.compute_environments) :
              /\ q.computeEnvironmentOrder[i].order = i - 1
              /\ q.computeEnvironmentOrder[i].computeEnvironment =
                    args.compute_environments[i]
  /\ calls["create_job_queue"] <= 1
  /\ StatusChecks > 0 => (calls["create_job_queue"] = 1 /\ job_queues # {})

\* a queue of two different compute environments was created and its
\* status checked
C26_Witness ==
  /\ Len(args.compute_environments) = 2
  /\ args.compute_environments[1] # args.compute_environments[2]
  /\ job_queues # {}
  /\ StatusChecks > 0


\* the environment a submitted job carries
EnvironmentOf(job) == job.containerOverrides.environment

\* C25 (as stated): the environment of every submitted job has at most one
\* entry per variable name, also when the token list repeats a name.
C25_UniqueNames ==
  \A k \in 1..Len(jobs) :
     \A i, j \in 1..Len(EnvironmentOf(jobs[k])) :
        EnvironmentOf(jobs[k])[i].name = EnvironmentOf(jobs[k])[j].name
           => i = j

\* C27: for a token list t of even length 2n the environment of every
\* submitted job has exactly n entries, the i-th (from 0) with name t[2i]
\* and value t[2i+1]; without tokens the environment is empty.
C27_PairsInOrder ==
  /\ \A k \in 1..Len(jobs) :
        /\ 2 * Len(EnvironmentOf(jobs[k])) = Len(args.env_vars)
        /\ \A i \in 1..Len(EnvironmentOf(jobs[k])) :
              /\ EnvironmentOf(jobs[k])[i].name = args.env_vars[2 * i - 1]
              /\ EnvironmentOf(jobs[k])[i].value = args.env_vars[2 * i]
  /\ (pc \in {"submit_job", "done"} /\ args.env_vars = << >>)
        => env_vars = << >>

\* jobs were submitted with an environment of two variables with different
\* names
C27_Witness ==
  /\ Len(args.env_vars) = 4
  /\ args.env_vars[1] # args.env_vars[3]
  /\ Len(jobs) > 1

\* C28: when the submission for index k fails the run ends there: the jobs
\* submitted are exactly those of the indices 0..k-1, and no later step
\* submits or tries to submit another one.
C28_AbortAtFailedIndex ==
  /\ [](calls["submit_job"] > Len(jobs) =>
          /\ pc = "exit"
          /\ exit_code # 0
          /\ index = Len(jobs)
          /\ calls["submit_job"] = index + 1)
  /\ [](\A k \in 1..Len(jobs) :
          jobs[k].containerOverrides.command = <<"--index", Str(k - 1)>>)
  /\ [][calls["submit_job"] > Len(jobs) =>
          (jobs' = jobs /\ calls' = calls)]_vars

\* the submission for index 3 failed after those for 0, 1 and 2
C28_Witness ==
  /\ exit_msg = "error"
  /\ index = 3
  /\ Len(jobs) = 3
  /\ calls["submit_job"] = 4

\* C29: the names of the jobs of one run are pairwise different.
C29_DistinctJobNames ==
  \A j, k \in 1..Len(jobs) : jobs[j].jobName = jobs[k].jobName => j = k

\* all range_max jobs of a run were submitted
C29_Witness ==
  /\ Len(jobs) = range_max
  /\ jobs[1].jobName # jobs[range_max].jobName


\* the docker calls that build, tag and push one image per tag, tag by tag
RECURSIVE BuildTagPush(_)
BuildTagPush(tags) ==
  IF tags = << >> THEN << >>
  ELSE << <<"build", tags[1]>>, <<"tag", tags[1]>>, <<"push", tags[1]>> >>
          \o BuildTagPush(Tail(tags))

\* C30: build_and_push has the uri of the repository, looked up or created,
\* before it builds an image, and its docker calls are build, tag, push for
\* the first tag, then build, tag, push for the second, and so on in the
\* order the tags were given (the single tag latest when none was given).
C30_ResolveThenBuildTagPush ==
  /\ IsPrefix(docker_log,
              BuildTagPush(IF args.tags = << >> THEN <<"latest">>
                           ELSE args.tags))
  /\ docker_log # << >> =>
        /\ repo_uri = RepositoryUri(RepoName(nbs, time_stamp))
        /\ RepoName(nbs, time_stamp) \in repositories
  /\ \A p \in pushed :
        \E k \in 3..Len(docker_log) :
           /\ docker_log[k] = <<"push", p[2]>>
           /\ docker_log[k - 1] = <<"tag", p[2]>>
           /\ docker_log[k - 2] = <<"build", p[2]>>

\* the images of two tags were built, tagged and pushed
C30_Witness ==
  /\ Len(args.tags) = 2
  /\ args.tags[1] # args.tags[2]
  /\ Len(docker_log) = 6
  /\ Cardinality(pushed) = 2


\* the requested policy names that no listed policy carries
Unresolvable == { k \in 1..Len(args.policies) : args.policies[k] \notin AWSPolicies }

\* C31: create_role_attach_policy attaches nothing before it has the arn of
\* the role, from create_role or from the get_role of the fallback; what it
\* attaches is, in list order, one policy per requested name; when the
\* k-th name matches no listed policy, the policies of the names before k
\* are attached and no other is.
C31_ArnThenAttachInOrder ==
  /\ attach_log # << >> =>
        /\ role_arn = RoleArn(JobRoleName(nbs, time_stamp))
        /\ JobRoleName(nbs, time_stamp) \in roles
        /\ calls["create_role"] = 1
        /\ calls["list_policies"] = 1
  /\ Len(attach_log) <= Len(args.policies)
  /\ \A i \in 1..Len(attach_log) :
        attach_log[i] = <<JobRoleName(nbs, time_stamp), args.policies[i]>>
  /\ attached_policies = { attach_log[i] : i \in 1..Len(attach_log) }
  /\ \A k \in Unresolvable : Len(attach_log) < k
  /\ exit_msg = "IndexError" =>
        /\ Unresolvable # {}
        /\ \A k \in Unresolvable :
              (\A j \in Unresolvable : k <= j) => Len(attach_log) = k - 1

\* the second requested name matched no listed policy after the policy of
\* the first had been attached to the role
C31_Witness ==
  /\ exit_msg = "IndexError"
  /\ Unresolvable = {2}
  /\ role_arn # << >>
  /\ Len(attach_log) = 1
  /\ attach_log[1][2] = args.policies[1]

====
